---------------------------- MODULE Spec2Model ----------------------------
(***************************************************************************)
(* A model of spandex: the generic snippet/group tree and its merge        *)
(* (expander/expander.go), the TextExpander backend                        *)
(* (expander/textexpander/textexpander.go), the AutoKey backend            *)
(* (expander/autokey/autokey.go) and the driver (spandex.go).              *)
(*                                                                         *)
(* Go pointers are modelled by a heap: gheap[i] is the Group object with   *)
(* address i, sheap[i] the Snippet object with address i, 0 is nil.        *)
(* Strings that become part of a file path are sequences of tokens         *)
(* (characters, or a whole extension such as "txt"), so that path.Join,    *)
(* the file name pattern and the hidden-file test are computed.            *)
(***************************************************************************)
EXTENDS Integers, Sequences, FiniteSets, TLC

VARIABLES
    gheap,      \* heap of expander.Group objects
    sheap,      \* heap of expander.Snippet objects
    roots,      \* the root groups the calling code holds: <<target, incoming>>
    calls,      \* the calls the calling code has made so far, in order
    registry,   \* expander.registry: backend name -> constructor
    mu,         \* expander.mu: the goroutine holding it, or Nil
    rpc,        \* per registering goroutine: where it is in Register
    rarg,       \* per registering goroutine: the name it registers
    rret,       \* per registering goroutine: what Register returned
    ret,        \* the error returned by the last call of calls ("nil": none)
    teFile,     \* the TextExpander settings file on disk
    teData,     \* TextExpander.data
    teGroups,   \* TextExpander.groups
    akGroups,   \* AutoKey.groups: name -> [group, managed]
    fs,         \* the file system: path elements -> directory or file
    wrote,      \* the files the last AutoKey.Write wrote, in order
    flags,      \* the command line flags -source, -dest and -import_name
    pc          \* where main is

heapVars == <<gheap, sheap>>
callVars == <<roots, calls, ret>>
regVars == <<registry, mu, rpc, rarg, rret>>
teVars == <<teFile, teData, teGroups>>
akVars == <<akGroups, fs, wrote>>
mainVars == <<flags, pc>>
vars == <<gheap, sheap, roots, calls, ret, registry, mu, rpc, rarg, rret,
          teFile, teData, teGroups, akGroups, fs, wrote, flags, pc>>

Nil == 0

\* ------------------------------------------------------------------ bounds
\* Total number of Group and Snippet objects in the two trees given to Merge.
MaxNodes == 6
\* Number of Merge / MergeAll calls the caller makes on the target tree.
MaxMerges == 2
\* Number of calls the caller makes on a backend.
MaxCalls == 3
\* Number of goroutines calling Register concurrently.
NumRegistrants == 3
\* The wall clock reading while the program runs; snippet modification times
\* lie before it.
WallClock == 3
\* Number of Group and Snippet objects in the tree the caller of the AutoKey
\* backend holds.
MaxAKNodes == 2
\* Size of a TextExpander document: its group records plus the snippet
\* identifiers they list.
MaxDocSize == 4
\* Number of Group and Snippet objects in the tree that is written into an
\* empty data directory.
MaxFreshNodes == 3

\* ------------------------------------------------------------ finite helpers
Range(s) == {s[i] : i \in 1..Len(s)}

\* The empty map.
EmptyMap == [x \in {} |-> Nil]

\* The element of a set of one element; {e(x) : x \in {v}} names v in e.
The(S) == CHOOSE x \in S : TRUE

\* m with key k set to v.
MapPut(m, k, v) == [x \in DOMAIN m \cup {k} |-> IF x = k THEN v ELSE m[x]]

\* --------------------------------------------------------- strings and paths
\* A string that takes part in a path is a sequence of tokens: one-character
\* strings, "/" and "." among them, and whole words without "." or "/".

Slash == "/"
Dot == "."

\* The characters of a token, and their byte values, for sorting file names.
TokenChars(t) ==
    CASE t = "txt" -> <<"t", "x", "t">>
      [] t = "json" -> <<"j", "s", "o", "n">>
      [] t = "data" -> <<"d", "a", "t", "a">>
      [] t = "u1" -> <<"u", "1">>
      [] t = "u2" -> <<"u", "2">>
      [] t = "u3" -> <<"u", "3">>
      [] OTHER -> <<t>>

CharCode(c) ==
    CASE c = "." -> 46 [] c = "/" -> 47 [] c = "1" -> 49 [] c = "2" -> 50
      [] c = "3" -> 51 [] c = "I" -> 73 [] c = "T" -> 84 [] c = "a" -> 97
      [] c = "b" -> 98 [] c = "d" -> 100 [] c = "j" -> 106 [] c = "k" -> 107
      [] c = "n" -> 110 [] c = "o" -> 111 [] c = "s" -> 115 [] c = "t" -> 116
      [] c = "u" -> 117 [] c = "x" -> 120 [] c = "y" -> 121
      [] OTHER -> 63

RECURSIVE Flatten(_)
Flatten(str) ==
    IF str = <<>> THEN <<>> ELSE TokenChars(Head(str)) \o Flatten(Tail(str))

\* x sorts before y (byte-wise), as ioutil.ReadDir sorts file names.
RECURSIVE CharsLess(_, _)
CharsLess(x, y) ==
    IF y = <<>> THEN FALSE
    ELSE IF x = <<>> THEN TRUE
    ELSE IF CharCode(Head(x)) # CharCode(Head(y))
         THEN CharCode(Head(x)) < CharCode(Head(y))
         ELSE CharsLess(Tail(x), Tail(y))

NameLess(x, y) == CharsLess(Flatten(x), Flatten(y))

\* strings.Split(p, "/")
RECURSIVE SplitPath(_)
SplitPath(p) ==
    LET hits == {i \in 1..Len(p) : p[i] = Slash}
    IN  IF hits = {} THEN <<p>>
        ELSE LET i == CHOOSE k \in hits : \A j \in hits : k <= j
             IN  <<SubSeq(p, 1, i - 1)>> \o SplitPath(SubSeq(p, i + 1, Len(p)))

\* The elements of a path joined by "/".
RECURSIVE JoinElements(_)
JoinElements(elems) ==
    IF elems = <<>> THEN <<>>
    ELSE IF Len(elems) = 1 THEN elems[1]
    ELSE elems[1] \o <<Slash>> \o JoinElements(Tail(elems))

DotDot == <<Dot, Dot>>

\* The elements path.Clean keeps: empty and "." elements are dropped, ".."
\* removes the element before it, is dropped at the root, and stays at the
\* start of a relative path.
RECURSIVE CleanElements(_, _, _, _)
CleanElements(elems, i, out, rooted) ==
    IF i > Len(elems) THEN out
    ELSE LET e == elems[i]
             out1 == IF e = <<>> \/ e = <<Dot>> THEN out
                     ELSE IF e = DotDot
                          THEN IF out # <<>> /\ out[Len(out)] # DotDot
                               THEN SubSeq(out, 1, Len(out) - 1)
                               ELSE IF rooted THEN out ELSE Append(out, e)
                          ELSE Append(out, e)
         IN  CleanElements(elems, i + 1, out1, rooted)

\* path.Clean
Clean(p) ==
    IF p = <<>> THEN <<Dot>>
    ELSE LET rooted == p[1] = Slash
             out == CleanElements(SplitPath(p), 1, <<>>, rooted)
         IN  IF rooted THEN <<Slash>> \o JoinElements(out)
             ELSE IF out = <<>> THEN <<Dot>> ELSE JoinElements(out)

\* path.Join(a, b): empty elements are ignored, the result is cleaned.
Join(a, b) ==
    IF a = <<>> /\ b = <<>> THEN <<>>
    ELSE IF a = <<>> THEN Clean(b)
    ELSE IF b = <<>> THEN Clean(a)
    ELSE Clean(a \o <<Slash>> \o b)

\* Group.Path: the name of a root, else the parent's path joined with the name.
RECURSIVE GroupPath(_, _)
GroupPath(gh, g) ==
    IF gh[g].Parent = Nil THEN gh[g].Name
    ELSE Join(GroupPath(gh, gh[g].Parent), gh[g].Name)

\* Snippet.Path
SnippetPath(gh, sh, s) == Join(GroupPath(gh, sh[s].Parent), sh[s].Name)

\* ------------------------------------------------------------ the file system
\* fs maps the elements of an absolute path to what is there. Every I/O
\* operation returns the new file system and an error ("nil": none).

\* The metadata a file holds, if it decodes as one: of the fields of the
\* metadata struct, those that newSnippet reads back.
NoMetadata == [valid |-> FALSE, Description |-> <<>>, Abbreviations |-> <<>>]

DirNode(t) == [kind |-> "dir", text |-> "", md |-> NoMetadata, mtime |-> t]

\* Only the root directory exists.
EmptyFS == [k \in {<<>>} |-> DirNode(0)]

\* The elements of a path as the operating system resolves it.
FsKey(p) == CleanElements(SplitPath(p), 1, <<>>, TRUE)

\* The absolute path with these elements.
KeyPath(key) == <<Slash>> \o JoinElements(key)

IsDir(f, key) == key \in DOMAIN f /\ f[key].kind = "dir"

IsFile(f, key) == key \in DOMAIN f /\ f[key].kind = "file"

Prefixes(key) == {SubSeq(key, 1, n) : n \in 0..Len(key)}

\* os.MkdirAll: fails if the path or one of its parents is a file.
MkdirAll(f, key, now) ==
    IF \E k \in Prefixes(key) : IsFile(f, k)
    THEN [fs |-> f, err |-> "not a directory"]
    ELSE [fs |-> [k \in DOMAIN f \cup Prefixes(key) |->
                    IF k \in DOMAIN f THEN f[k] ELSE DirNode(now)],
          err |-> "nil"]

\* os.Create or ioutil.WriteFile followed by the write: the parent must be a
\* directory and the path must not be one; the file gets the wall clock time.
WriteFile(f, key, text, md, now) ==
    IF key = <<>> \/ IsDir(f, key) THEN [fs |-> f, err |-> "is a directory"]
    ELSE IF ~IsDir(f, SubSeq(key, 1, Len(key) - 1))
    THEN [fs |-> f, err |-> "no such file or directory"]
    ELSE [fs |-> [k \in DOMAIN f \cup {key} |->
                    IF k = key
                    THEN [kind |-> "file", text |-> text, md |-> md, mtime |-> now]
                    ELSE f[k]],
          err |-> "nil"]

\* os.Chtimes
Chtimes(f, key, t) ==
    IF key \notin DOMAIN f THEN [fs |-> f, err |-> "no such file or directory"]
    ELSE [fs |-> [f EXCEPT ![key].mtime = t], err |-> "nil"]

\* The names in a directory, as ioutil.ReadDir lists them.
DirEntries(f, key) ==
    {k[Len(k)] : k \in {x \in DOMAIN f : Len(x) = Len(key) + 1
                                          /\ SubSeq(x, 1, Len(key)) = key}}

\* ------------------------------------------------------- expander.Group tree

\* Names the modelled callers give to groups and snippets.
MergeGroupNames == {<<"a">>, <<"b">>}
MergeSnippetNames == {<<"s">>, <<"t">>}

\* The first child group of g named name (the inner loop of MergeAll), or Nil.
FindGroup(gh, g, name) ==
    LET l == gh[g].Groups
        hits == {i \in 1..Len(l) : gh[l[i]].Name = name}
    IN  IF hits = {} THEN Nil
        ELSE l[CHOOSE i \in hits : \A j \in hits : i <= j]

\* Index in g.Snippets of the first snippet named name (the inner loop of
\* mergeSnippets), or 0.
FindSnippet(gh, sh, g, name) ==
    LET l == gh[g].Snippets
        hits == {i \in 1..Len(l) : sh[l[i]].Name = name}
    IN  IF hits = {} THEN 0
        ELSE CHOOSE i \in hits : \A j \in hits : i <= j

\* A mergeSnippets that appends without looking for the name.
RECURSIVE mergeSnippetsAppendOnly(_, _, _, _, _)
mergeSnippetsAppendOnly(gh, sh, g, snippets, i) ==
    IF i > Len(snippets) THEN gh
    ELSE mergeSnippetsAppendOnly([gh EXCEPT ![g].Snippets = Append(@, snippets[i])],
                                 sh, g, snippets, i + 1)

\* A mergeSnippets that puts a snippet of a new name in front of the list.
RECURSIVE mergeSnippetsPrepending(_, _, _, _, _)
mergeSnippetsPrepending(gh, sh, g, snippets, i) ==
    IF i > Len(snippets) THEN gh
    ELSE mergeSnippetsPrepending(
           IF FindSnippet(gh, sh, g, sh[snippets[i]].Name) # 0
           THEN [gh EXCEPT ![g].Snippets[FindSnippet(gh, sh, g, sh[snippets[i]].Name)] = snippets[i]]
           ELSE [gh EXCEPT ![g].Snippets = <<snippets[i]>> \o @],
           sh, g, snippets, i + 1)

\* mergeSnippets from the i-th incoming snippet on: replace the pointer at the
\* index of the first snippet of the same name, or append the pointer.
RECURSIVE mergeSnippetsFrom(_, _, _, _, _)
mergeSnippetsFrom(gh, sh, g, snippets, i) ==
    IF i > Len(snippets) THEN gh
    ELSE LET snippet == snippets[i]
             k == FindSnippet(gh, sh, g, sh[snippet].Name)
             gh1 == IF k # 0
                    THEN [gh EXCEPT ![g].Snippets[k] = snippet]
                    ELSE [gh EXCEPT ![g].Snippets = Append(@, snippet)]
         IN  mergeSnippetsFrom(gh1, sh, g, snippets, i + 1)

mergeSnippets(gh, sh, g, snippets) == mergeSnippetsFrom(gh, sh, g, snippets, 1)

\* Merge and MergeAll: a group of the same name is merged into recursively, a
\* group with a new name is appended as it is (the pointer; its Parent is
\* not touched).
RECURSIVE Merge(_, _, _, _)
\* A MergeAll that replaces a child group of the same name by the incoming one.
RECURSIVE MergeAllReplacing(_, _, _, _, _)
MergeAllReplacing(gh, sh, g, rights, i) ==
    IF i > Len(rights) THEN gh
    ELSE LET right == rights[i]
             l == gh[g].Groups
             hits == {k \in 1..Len(l) : gh[l[k]].Name = gh[right].Name}
             gh1 == IF hits # {}
                    THEN [gh EXCEPT ![g].Groups[CHOOSE k \in hits : TRUE] = right]
                    ELSE [gh EXCEPT ![g].Groups = Append(@, right)]
         IN  MergeAllReplacing(gh1, sh, g, rights, i + 1)

\* A MergeAll that appends every incoming group without looking for the name.
RECURSIVE MergeAllAppending(_, _, _, _, _)
MergeAllAppending(gh, sh, g, rights, i) ==
    IF i > Len(rights) THEN gh
    ELSE MergeAllAppending([gh EXCEPT ![g].Groups = Append(@, rights[i])],
                           sh, g, rights, i + 1)


RECURSIVE MergeAllFrom(_, _, _, _, _)
MergeAllFrom(gh, sh, g, rights, i) ==
    IF i > Len(rights) THEN gh
    ELSE LET right == rights[i]
             left == FindGroup(gh, g, gh[right].Name)
             gh1 == IF left # Nil
                    THEN Merge(gh, sh, left, right)
                    ELSE [gh EXCEPT ![g].Groups = Append(@, right)]
         IN  MergeAllFrom(gh1, sh, g, rights, i + 1)

MergeAll(gh, sh, g, rights) == MergeAllFrom(gh, sh, g, rights, 1)

Merge(gh, sh, g, other) ==
    LET gh1 == MergeAll(gh, sh, g, gh[other].Groups)
    IN  mergeSnippets(gh1, sh, g, gh1[other].Snippets)

\* ------------------------------------------------- trees built by the caller
\* A caller builds trees with composite literals (&expander.Group{...}); the
\* trees below are described by value and then allocated on the heap with
\* consistent Parent pointers.

\* Abbreviation, text and modification time of the snippets callers build.
SnippetData ==
    { [Abbr |-> <<"t", "y">>, Text |-> "Thank you!", ModTime |-> 1],
      [Abbr |-> <<>>, Text |-> "bye", ModTime |-> 2] }

SnippetValues(names) ==
    { [Name |-> n, Abbr |-> d.Abbr, Text |-> d.Text, ModTime |-> d.ModTime] :
        n \in names, d \in SnippetData }

\* Lists of k snippets with pairwise different names.
RECURSIVE SnippetLists(_, _)
SnippetLists(k, names) ==
    IF k = 0 THEN {<<>>}
    ELSE { Append(l, v) : l \in SnippetLists(k - 1, names),
                          v \in SnippetValues(names) }

NamesOf(l) == {l[i].Name : i \in 1..Len(l)}

UniqueNames(l) == \A i, j \in 1..Len(l) : l[i].Name = l[j].Name => i = j

\* Group trees of exactly n objects (groups and snippets, the root included)
\* in which no two sibling groups and no two sibling snippets share a name.
RECURSIVE GroupTrees(_, _, _, _)
RECURSIVE GroupLists(_, _, _)
GroupLists(m, gnames, snames) ==
    IF m = 0 THEN {<<>>}
    ELSE UNION { UNION { { <<g>> \o rest :
                             rest \in { r \in GroupLists(m - j, gnames, snames) :
                                          \A i \in 1..Len(r) : r[i].Name # g.Name } } :
                         g \in GroupTrees(j, gnames, gnames, snames) } :
                 j \in 1..m }

GroupTrees(n, rootnames, gnames, snames) ==
    UNION { { [Name |-> nm, Snippets |-> sl, Groups |-> gl] :
                nm \in rootnames,
                sl \in { l \in SnippetLists(k, snames) : UniqueNames(l) },
                gl \in GroupLists(n - 1 - k, gnames, snames) } :
            k \in 0..(n - 1) }

\* Allocate a tree described by value: the group first, then its snippets,
\* then its child groups, each with Parent set to the group that lists it.
RECURSIVE AllocGroup(_, _, _, _)
RECURSIVE AllocChildren(_, _, _, _, _)
AllocChildren(gh, sh, kids, parent, i) ==
    IF i > Len(kids) THEN [gh |-> gh, sh |-> sh]
    ELSE LET a == AllocGroup(gh, sh, kids[i], parent)
         IN  AllocChildren([a.gh EXCEPT ![parent].Groups = Append(@, a.id)],
                           a.sh, kids, parent, i + 1)

AllocGroup(gh, sh, t, parent) ==
    LET id == Len(gh) + 1
        n == Len(t.Snippets)
        sh1 == sh \o [i \in 1..n |->
                        [Name |-> t.Snippets[i].Name, Abbr |-> t.Snippets[i].Abbr,
                         Text |-> t.Snippets[i].Text, Parent |-> id,
                         ModTime |-> t.Snippets[i].ModTime]]
        gh1 == Append(gh, [Name |-> t.Name,
                           Snippets |-> [i \in 1..n |-> Len(sh) + i],
                           Groups |-> <<>>, Parent |-> parent])
        r == AllocChildren(gh1, sh1, t.Groups, id, 1)
    IN  [gh |-> r.gh, sh |-> r.sh, id |-> id]

\* The tree below group g, by value: names, snippet fields and list lengths
\* at every level (pointers and Parent left out).
SnippetView(sh, s) ==
    [Name |-> sh[s].Name, Abbr |-> sh[s].Abbr, Text |-> sh[s].Text,
     ModTime |-> sh[s].ModTime]

RECURSIVE TreeView(_, _, _)
TreeView(gh, sh, g) ==
    [Name |-> gh[g].Name,
     Snippets |-> [i \in 1..Len(gh[g].Snippets) |-> SnippetView(sh, gh[g].Snippets[i])],
     Groups |-> [i \in 1..Len(gh[g].Groups) |-> TreeView(gh, sh, gh[g].Groups[i])]]

\* ------------------------------------------------------------- the registry
\* Register(name, fun), called by several goroutines at once. The constructor
\* a goroutine registers is identified with the goroutine.

RegistryNames == {"TextExpander", "AutoKey"}
Registrants == 1..NumRegistrants

\* The registry of a program in which nobody is registering.
RegistryUnused ==
    /\ registry = EmptyMap
    /\ mu = Nil
    /\ rpc = <<>>
    /\ rarg = <<>>
    /\ rret = <<>>

\* A mutex that lets everybody in.
MutexNeverHeld == TRUE

\* mu.Lock() returns only when no goroutine holds mu.
MutexFree == mu = Nil

\* mu.Lock()
RegisterLock(p) ==
    /\ rpc[p] = "start"
    /\ MutexFree
    /\ mu' = p
    /\ rpc' = [rpc EXCEPT ![p] = "locked"]
    /\ UNCHANGED <<registry, rarg, rret>>

\* if _, ok := registry[name]; ok { return fmt.Errorf(...) }, with the
\* deferred mu.Unlock() when it returns.
RegisterCheck(p) ==
    /\ rpc[p] = "locked"
    /\ IF rarg[p] \in DOMAIN registry
       THEN /\ rret' = [rret EXCEPT ![p] = "already registered"]
            /\ rpc' = [rpc EXCEPT ![p] = "done"]
            /\ mu' = Nil
       ELSE /\ rpc' = [rpc EXCEPT ![p] = "store"]
            /\ UNCHANGED <<rret, mu>>
    /\ UNCHANGED <<registry, rarg>>

\* registry[name] = fun; return nil, with the deferred mu.Unlock().
RegisterStore(p) ==
    /\ rpc[p] = "store"
    /\ registry' = MapPut(registry, rarg[p], p)
    /\ rret' = [rret EXCEPT ![p] = "nil"]
    /\ rpc' = [rpc EXCEPT ![p] = "done"]
    /\ mu' = Nil
    /\ UNCHANGED rarg


\* ------------------------------------------------- the TextExpander backend

\* Snippet identifiers (uuidString) that occur in documents.
UUIDs == {<<"u1">>, <<"u2">>, <<"u3">>}
TEGroupNames == {<<"a">>, <<"b">>}

\* rawSnippet records: the snippetsTE2 list of the modelled documents. No
\* document has a snippet u3, so a reference to u3 cannot be resolved.
RawSnippets ==
    << [UUID |-> <<"u1">>, Abbr |-> <<"t", "y">>, Label |-> "thanks",
        Text |-> "Thank you!", ModDate |-> 1],
       [UUID |-> <<"u2">>, Abbr |-> <<>>, Label |-> "", Text |-> "bye",
        ModDate |-> 2] >>

\* Lists of k snippet identifiers.
RECURSIVE UUIDLists(_)
UUIDLists(k) ==
    IF k = 0 THEN {<<>>}
    ELSE { Append(l, u) : l \in UUIDLists(k - 1), u \in UUIDs }

\* Lists of rawGroup records of total size m (a record counts 1 plus the
\* number of identifiers it lists).
RECURSIVE RawGroupLists(_)
RawGroupLists(m) ==
    IF m = 0 THEN {<<>>}
    ELSE UNION { { <<[Name |-> n, UUIDs |-> l]>> \o rest :
                     n \in TEGroupNames, l \in UUIDLists(k - 1),
                     rest \in RawGroupLists(m - k) } :
                 k \in 1..m }

\* rawData values a decoded document can have.
RawDocuments ==
    UNION { { [Groups |-> gl, Snippets |-> RawSnippets] : gl \in RawGroupLists(m) } :
            m \in 0..MaxDocSize }

EmptyRawData == [Groups |-> <<>>, Snippets |-> <<>>]

\* The settings file: missing, not a property list, or a document.
TEFiles ==
    { [state |-> "missing", data |-> EmptyRawData],
      [state |-> "malformed", data |-> EmptyRawData] }
    \cup { [state |-> "ok", data |-> d] : d \in RawDocuments }

\* The Snippet objects parse allocates, one per rawSnippet, Parent unset.
parseNewSnippets(raw) ==
    [i \in 1..Len(raw) |->
        [Name |-> raw[i].UUID, Abbr |-> raw[i].Abbr, Text |-> raw[i].Text,
         Parent |-> Nil, ModTime |-> raw[i].ModDate]]

\* The map snippets of parse: the object of the last rawSnippet with this
\* identifier, Nil if there is none. base is the heap size before parse.
parseLookup(raw, base, uuid) ==
    LET hits == {i \in 1..Len(raw) : raw[i].UUID = uuid}
    IN  IF hits = {} THEN Nil
        ELSE base + (CHOOSE i \in hits : \A j \in hits : j <= i)

\* The inner loop of parse from the j-th identifier of a group record on:
\* s.Parent = group; group.Snippets = append(group.Snippets, s), stopping at
\* the first identifier that is not in the map.
RECURSIVE parseUUIDs(_, _, _, _, _, _, _)
parseUUIDs(gh, sh, raw, base, group, uuids, j) ==
    IF j > Len(uuids) THEN [gh |-> gh, sh |-> sh, err |-> "nil"]
    ELSE LET s == parseLookup(raw, base, uuids[j])
         IN  IF s = Nil
             THEN [gh |-> gh, sh |-> sh, err |-> "invalid snippet UUID"]
             ELSE parseUUIDs([gh EXCEPT ![group].Snippets = Append(@, s)],
                             [sh EXCEPT ![s].Parent = group],
                             raw, base, group, uuids, j + 1)

\* A parse that puts the group into te.groups before it resolves the group's
\* identifiers.
RECURSIVE parseGroupsAppendFirst(_, _, _, _, _, _)
parseGroupsAppendFirst(gh, sh, data, base, groups, i) ==
    IF i > Len(data.Groups) THEN [gh |-> gh, sh |-> sh, groups |-> groups, err |-> "nil"]
    ELSE LET group == Len(gh) + 1
             gh1 == Append(gh, [Name |-> data.Groups[i].Name, Snippets |-> <<>>,
                                Groups |-> <<>>, Parent |-> Nil])
             r == parseUUIDs(gh1, sh, data.Snippets, base, group, data.Groups[i].UUIDs, 1)
         IN  IF r.err # "nil"
             THEN [gh |-> r.gh, sh |-> r.sh, groups |-> Append(groups, group), err |-> r.err]
             ELSE parseGroupsAppendFirst(r.gh, r.sh, data, base, Append(groups, group), i + 1)

\* The outer loop of parse from the i-th group record on: a new Group, its
\* snippets resolved, then te.groups = append(te.groups, group); the first
\* unresolved identifier returns the error at once.
RECURSIVE parseGroups(_, _, _, _, _, _)
parseGroups(gh, sh, data, base, groups, i) ==
    IF i > Len(data.Groups) THEN [gh |-> gh, sh |-> sh, groups |-> groups, err |-> "nil"]
    ELSE LET group == Len(gh) + 1
             gh1 == Append(gh, [Name |-> data.Groups[i].Name, Snippets |-> <<>>,
                                Groups |-> <<>>, Parent |-> Nil])
             r == parseUUIDs(gh1, sh, data.Snippets, base, group, data.Groups[i].UUIDs, 1)
         IN  IF r.err # "nil"
             THEN [gh |-> r.gh, sh |-> r.sh, groups |-> groups, err |-> r.err]
             ELSE parseGroups(r.gh, r.sh, data, base, Append(groups, group), i + 1)

\* parse: te.groups is appended to, starting from what it holds.
parse(gh, sh, data, groups) ==
    parseGroups(gh, sh \o parseNewSnippets(data.Snippets), data, Len(sh), groups, 1)

\* A Write that reports success.
TEWriteReturnsNil == "nil"

\* What Write returns.
TEWriteError == "not implemented"

\* TextExpander.Load
TELoad ==
    /\ calls' = Append(calls, "Load")
    /\ IF teFile.state = "missing"
       THEN /\ ret' = "open error"
            /\ UNCHANGED <<gheap, sheap, teData, teGroups>>
       ELSE IF teFile.state = "malformed"
       THEN /\ ret' = "decode error"
            /\ teData' = EmptyRawData
            /\ UNCHANGED <<gheap, sheap, teGroups>>
       ELSE LET r == parse(gheap, sheap, teFile.data, teGroups)
            IN  /\ teData' = teFile.data
                /\ gheap' = r.gh
                /\ sheap' = r.sh
                /\ teGroups' = r.groups
                /\ ret' = r.err
    /\ UNCHANGED <<teFile, roots>>

\* TextExpander.Groups
TEGroups == teGroups

\* TextExpander.Group: the first group of that name, or Nil.
TEGroup(name) ==
    LET hits == {i \in 1..Len(teGroups) : gheap[teGroups[i]].Name = name}
    IN  IF hits = {} THEN Nil
        ELSE teGroups[CHOOSE i \in hits : \A j \in hits : i <= j]

\* A SetGroup that appends the group whether or not the name is present.
TESetGroupAppending(group) ==
    /\ calls' = Append(calls, "SetGroup")
    /\ ret' = "nil"
    /\ teGroups' = Append(teGroups, group)
    /\ UNCHANGED <<gheap, sheap, teFile, teData, roots>>


\* TextExpander.SetGroup: replace the first group of the same name, or append.
TESetGroup(group) ==
    /\ calls' = Append(calls, "SetGroup")
    /\ ret' = "nil"
    /\ LET hits == {i \in 1..Len(teGroups) : gheap[teGroups[i]].Name = gheap[group].Name}
       IN  teGroups' = IF hits = {} THEN Append(teGroups, group)
                       ELSE [teGroups EXCEPT ![CHOOSE i \in hits : \A j \in hits : i <= j] = group]
    /\ UNCHANGED <<gheap, sheap, teFile, teData, roots>>

\* TextExpander.Write
TEWrite ==
    /\ calls' = Append(calls, "Write")
    /\ ret' = TEWriteError
    /\ UNCHANGED <<gheap, sheap, teFile, teData, teGroups, roots>>

\* A TextExpander that is not used.
TEUnused ==
    /\ teFile = [state |-> "missing", data |-> EmptyRawData]
    /\ teData = EmptyRawData
    /\ teGroups = <<>>

\* ------------------------------------------------------ the AutoKey backend

metadataExt == <<"json">>
snippetExt == <<"txt">>
dataDir == <<"data">>

\* The -ak_dir flag, and AutoKey.dir as newAK sets it.
akDir == <<Slash, "k">>
Dir == Join(akDir, dataDir)

\* filePattern, ^(.+/)?(.+)\.(.+?)$, on file: the end of the first group (0:
\* the group does not take part) and the place of the dot. The first group
\* takes the longest prefix ending in "/" after which a dot with something on
\* both sides is left; the second takes all up to the last such dot.
DotPlaces(file, i) == {d \in (i + 2)..(Len(file) - 1) : file[d] = Dot}

filePatternMatch(file) ==
    LET ends == {i \in 2..Len(file) : file[i] = Slash /\ DotPlaces(file, i) # {}}
        i == IF ends = {} THEN 0 ELSE CHOOSE e \in ends : \A x \in ends : x <= e
        dots == DotPlaces(file, i)
    IN  IF dots = {} THEN [ok |-> FALSE, dir |-> <<>>, base |-> <<>>]
        ELSE LET d == CHOOSE e \in dots : \A x \in dots : x <= e
             IN  [ok |-> TRUE, dir |-> SubSeq(file, 1, i),
                  base |-> SubSeq(file, i + 1, d - 1)]

\* A metadataPath that puts the metadata beside the snippet without the
\* leading dot.
metadataPathNoDot(file) ==
    LET m == filePatternMatch(file)
    IN  IF ~m.ok THEN [err |-> "invalid file name", path |-> <<>>]
        ELSE [err |-> "nil", path |-> m.dir \o m.base \o <<Dot>> \o metadataExt]

\* metadataPath: fmt.Sprintf("%v.%v.%v", match[1], match[2], metadataExt)
metadataPath(file) ==
    LET m == filePatternMatch(file)
    IN  IF ~m.ok THEN [err |-> "invalid file name", path |-> <<>>]
        ELSE [err |-> "nil",
              path |-> m.dir \o <<Dot>> \o m.base \o <<Dot>> \o metadataExt]

\* newMetadata; what json.Encoder writes of it (ModTime is not written, the
\* other fields are the same for every snippet).
newMetadata(sh, s) ==
    [valid |-> TRUE, Description |-> sh[s].Abbr,
     Abbreviations |-> IF sh[s].Abbr # <<>> THEN <<sh[s].Abbr>> ELSE <<>>]

\* The state of a Write under way: the file system, the error that ended it
\* ("nil": none), the I/O operations made, and the files written.
\* DoIO makes one I/O operation, which fails by itself or because it is the
\* fault-th operation of this Write (a failing disk).
DoIO(w, fault, res, file) ==
    IF w.err # "nil" THEN w
    ELSE IF w.step + 1 = fault
    THEN [w EXCEPT !.err = "input/output error", !.step = @ + 1]
    ELSE [fs |-> res.fs, err |-> res.err, step |-> w.step + 1,
          log |-> IF res.err = "nil" THEN w.log \o file ELSE w.log]

\* A freshness test that also writes when the times are equal.
UpToDateStrict(f, key, modTime) ==
    key \in DOMAIN f /\ f[key].mtime > modTime

\* os.Stat(mdPath) succeeds and !fi.ModTime().Before(snippet.ModTime)
UpToDate(f, key, modTime) ==
    key \in DOMAIN f /\ ~(f[key].mtime < modTime)

\* The paths writeSnippet computes: the error of metadataPath, and the body
\* file and the metadata file as the operating system resolves them.
snippetFiles(gh, sh, s) ==
    The({ The({ [err |-> mdPath.err, body |-> FsKey(sPath), md |-> FsKey(mdPath.path)] :
                mdPath \in {metadataPath(sPath)} }) :
          sPath \in {Join(Dir, SnippetPath(gh, sh, s) \o <<Dot>> \o snippetExt)} })

\* A writeSnippet that leaves the body file with the time of its writing.
writeFilesBodyTimeUnset(w, sh, s, p, fault) ==
    The({ DoIO(w2, fault,
               WriteFile(w2.fs, p.body, sh[s].Text, NoMetadata, WallClock),
               <<p.body>>) :
          w2 \in { DoIO(w1, fault, Chtimes(w1.fs, p.md, sh[s].ModTime), <<>>) :
          w1 \in { DoIO(w, fault,
                        WriteFile(w.fs, p.md, "json", newMetadata(sh, s), WallClock),
                        <<p.md>>) } } })

\* The four writes of writeSnippet: the metadata file and its times, the body
\* file and its times.
writeFiles(w, sh, s, p, fault) ==
    The({ DoIO(w3, fault, Chtimes(w3.fs, p.body, sh[s].ModTime), <<>>) :
          w3 \in { DoIO(w2, fault,
                        WriteFile(w2.fs, p.body, sh[s].Text, NoMetadata, WallClock),
                        <<p.body>>) :
          w2 \in { DoIO(w1, fault, Chtimes(w1.fs, p.md, sh[s].ModTime), <<>>) :
          w1 \in { DoIO(w, fault,
                        WriteFile(w.fs, p.md, "json", newMetadata(sh, s), WallClock),
                        <<p.md>>) } } } })

\* writeSnippet
writeSnippet(w, gh, sh, s, fault) ==
    IF w.err # "nil" THEN w
    ELSE The({ IF p.err # "nil" THEN [w EXCEPT !.err = p.err]
               ELSE IF UpToDate(w.fs, p.md, sh[s].ModTime) THEN w
               ELSE writeFiles(w, sh, s, p, fault) :
               p \in {snippetFiles(gh, sh, s)} })

RECURSIVE writeSnippetsFrom(_, _, _, _, _, _)
writeSnippetsFrom(w, gh, sh, snippets, i, fault) ==
    IF i > Len(snippets) \/ w.err # "nil" THEN w
    ELSE writeSnippetsFrom(writeSnippet(w, gh, sh, snippets[i], fault),
                           gh, sh, snippets, i + 1, fault)

\* writeGroup: the directory, then the child groups, then the snippets.
RECURSIVE writeGroup(_, _, _, _, _)
RECURSIVE writeGroupsFrom(_, _, _, _, _, _)
writeGroupsFrom(w, gh, sh, groups, i, fault) ==
    IF i > Len(groups) \/ w.err # "nil" THEN w
    ELSE writeGroupsFrom(writeGroup(w, gh, sh, groups[i], fault),
                         gh, sh, groups, i + 1, fault)

writeGroup(w, gh, sh, group, fault) ==
    IF w.err # "nil" THEN w
    ELSE LET w1 == DoIO(w, fault,
                        MkdirAll(w.fs, FsKey(Join(Dir, GroupPath(gh, group))), WallClock),
                        <<>>)
             w2 == writeGroupsFrom(w1, gh, sh, gh[group].Groups, 1, fault)
         IN  writeSnippetsFrom(w2, gh, sh, gh[group].Snippets, 1, fault)

\* A Write that does not look at the managed flag.
WriteAnyGroup(entry) == TRUE

\* if !g.managed { continue }
WriteManaged(entry) == entry.managed

\* The loop of Write over ak.groups in the order the map gives them.
RECURSIVE writeAllFrom(_, _, _, _, _, _, _)
writeAllFrom(w, gh, sh, groups, order, i, fault) ==
    IF i > Len(order) \/ w.err # "nil" THEN w
    ELSE LET entry == groups[order[i]]
             w1 == IF WriteManaged(entry) THEN writeGroup(w, gh, sh, entry.group, fault)
                   ELSE w
         IN  writeAllFrom(w1, gh, sh, groups, order, i + 1, fault)

WriteAll(f, gh, sh, groups, order, fault) ==
    writeAllFrom([fs |-> f, err |-> "nil", step |-> 0, log |-> <<>>],
                 gh, sh, groups, order, 1, fault)

\* The orders in which a map with these keys can be ranged over.
RECURSIVE Orders(_)
Orders(keys) ==
    IF keys = {} THEN {<<>>}
    ELSE UNION { { <<k>> \o o : o \in Orders(keys \ {k}) } : k \in keys }

\* AutoKey.Write; fault = 0: the disk does not fail.
AKWrite ==
    \E order \in Orders(DOMAIN akGroups) :
      \E n \in {WriteAll(fs, gheap, sheap, akGroups, order, 0).step} :
        \E fault \in 0..n :
          \E w \in {WriteAll(fs, gheap, sheap, akGroups, order, fault)} :
            /\ fs' = w.fs
            /\ ret' = w.err
            /\ wrote' = w.log
            /\ calls' = Append(calls, "Write")
            /\ UNCHANGED <<gheap, sheap, akGroups, roots>>

\* AutoKey.SetGroup
AKSetGroup(group) ==
    /\ akGroups' = MapPut(akGroups, gheap[group].Name, [group |-> group, managed |-> TRUE])
    /\ calls' = Append(calls, "SetGroup")
    /\ ret' = "nil"
    /\ UNCHANGED <<gheap, sheap, fs, wrote, roots>>

\* AutoKey.Groups, in some order.
AKGroups == {akGroups[n].group : n \in DOMAIN akGroups}

\* AutoKey.Group
AKGroup(name) ==
    IF \E n \in DOMAIN akGroups : gheap[akGroups[n].group].Name = name
    THEN akGroups[CHOOSE n \in DOMAIN akGroups : gheap[akGroups[n].group].Name = name].group
    ELSE Nil

\* The Snippet newSnippet builds from the decoded metadata file and the body.
snippetOf(mdFile, bodyFile) ==
    [Name |-> mdFile.md.Description,
     Abbr |-> IF Len(mdFile.md.Abbreviations) > 0 THEN mdFile.md.Abbreviations[1]
              ELSE <<>>,
     Text |-> bodyFile.text, Parent |-> Nil, ModTime |-> mdFile.mtime]

NoSnippet == [Name |-> <<>>, Abbr |-> <<>>, Text |-> "", Parent |-> Nil, ModTime |-> 0]

\* newSnippet: the snippet of a body file, from its metadata file and its
\* contents.
newSnippet(f, key) ==
    The({ IF mdPath.err # "nil" THEN [err |-> mdPath.err, snippet |-> NoSnippet]
          ELSE The({ IF mdKey \notin DOMAIN f
                     THEN [err |-> "no such file or directory", snippet |-> NoSnippet]
                     ELSE IF ~(IsFile(f, mdKey) /\ f[mdKey].md.valid)
                     THEN [err |-> "decode error", snippet |-> NoSnippet]
                     ELSE [err |-> "nil", snippet |-> snippetOf(f[mdKey], f[key])] :
                     mdKey \in {FsKey(mdPath.path)} }) :
          mdPath \in {metadataPath(KeyPath(key))} })

\* The name ioutil.ReadDir lists first.
FirstName(names) == CHOOSE x \in names : \A y \in names \ {x} : NameLess(x, y)

\* load: the group of a directory. The entries are taken in the order of
\* their names; a directory becomes a child group, a regular file whose name
\* does not start with "." a snippet.
RECURSIVE load(_, _, _, _, _)
RECURSIVE loadEntries(_, _, _, _, _, _)
loadEntry(gh, sh, f, key, g, names, n) ==
    IF IsDir(f, Append(key, n))
    THEN The({ IF r.err # "nil" THEN r
               ELSE loadEntries([r.gh EXCEPT ![g].Groups = Append(@, r.id)],
                                r.sh, f, key, g, names \ {n}) :
               r \in {load(gh, sh, f, Append(key, n), g)} })
    ELSE IF n[1] = Dot
    THEN loadEntries(gh, sh, f, key, g, names \ {n})
    ELSE The({ IF r.err # "nil"
               THEN [gh |-> gh, sh |-> sh, id |-> g, err |-> r.err]
               ELSE loadEntries([gh EXCEPT ![g].Snippets = Append(@, Len(sh) + 1)],
                                Append(sh, [r.snippet EXCEPT !.Parent = g]),
                                f, key, g, names \ {n}) :
               r \in {newSnippet(f, Append(key, n))} })

loadEntries(gh, sh, f, key, g, names) ==
    IF names = {} THEN [gh |-> gh, sh |-> sh, id |-> g, err |-> "nil"]
    ELSE The({ loadEntry(gh, sh, f, key, g, names, n) : n \in {FirstName(names)} })

load(gh, sh, f, key, parent) ==
    IF ~IsDir(f, key) THEN [gh |-> gh, sh |-> sh, id |-> Nil, err |-> "readdir error"]
    ELSE loadEntries(Append(gh, [Name |-> key[Len(key)], Snippets |-> <<>>,
                                 Groups |-> <<>>, Parent |-> parent]),
                     sh, f, key, Len(gh) + 1, DirEntries(f, key))

\* The loop of Load over root.Groups: g.Parent = nil and
\* ak.groups[g.Name] = rawGroup{group: g}.
RECURSIVE loadAttach(_, _, _, _)
loadAttach(gh, groups, list, i) ==
    IF i > Len(list) THEN [gh |-> gh, groups |-> groups]
    ELSE loadAttach([gh EXCEPT ![list[i]].Parent = Nil],
                    MapPut(groups, gh[list[i]].Name, [group |-> list[i], managed |-> FALSE]),
                    list, i + 1)

\* AutoKey.Load. The objects of a load that failed are garbage and left out.
AKLoad ==
    \E r \in {load(gheap, sheap, fs, FsKey(Dir), Nil)} :
      /\ calls' = Append(calls, "Load")
      /\ ret' = r.err
      /\ IF r.err # "nil"
         THEN UNCHANGED <<gheap, sheap, akGroups>>
         ELSE \E a \in {loadAttach(r.gh, akGroups, r.gh[r.id].Groups, 1)} :
                /\ gheap' = a.gh
                /\ sheap' = r.sh
                /\ akGroups' = a.groups
      /\ UNCHANGED <<fs, wrote, roots>>

\* An AutoKey that is not used.
AKUnused ==
    /\ akGroups = EmptyMap
    /\ fs = EmptyFS
    /\ wrote = <<>>

\* --------------------------------------------------------- the command
\* A program that is not the spandex command.
MainUnused ==
    /\ flags = [source |-> "", dest |-> "", importName |-> <<>>]
    /\ pc = "none"

\* expander.New: the constructor registered under the name.
New(name) ==
    IF name \in DOMAIN registry THEN [kind |-> registry[name], err |-> "nil"]
    ELSE [kind |-> "", err |-> "invalid expander"]

\* fmt.Sprintf("Imported from %v", *srcExp) when -import_name is not set.
ImportName(f) ==
    IF f.importName = <<>> THEN <<"Imported from ", f.source>> ELSE f.importName

\* A main that leaves the Parent of the source groups as it is.
KeepParents(gh, groups, root) == gh

\* for _, g := range src.Groups() { g.Parent = root }
SetParents(gh, groups, root) ==
    [g \in DOMAIN gh |-> IF g \in Range(groups) THEN [gh[g] EXCEPT !.Parent = root]
                         ELSE gh[g]]

\* What src.Groups() can return.
SourceGroups ==
    IF New(flags.source).kind = "TextExpander" THEN {TEGroups}
    ELSE {[i \in 1..Len(order) |-> akGroups[order[i]].group] :
            order \in Orders(DOMAIN akGroups)}

\* main up to src, err := expander.New(*srcExp)
MainStart ==
    /\ pc = "start"
    /\ IF flags.source = "" \/ flags.dest = ""
       THEN /\ pc' = "exit"
            /\ ret' = "-source and -dest must be set"
            /\ UNCHANGED flags
       ELSE /\ flags' = [flags EXCEPT !.importName = ImportName(flags)]
            /\ ret' = New(flags.source).err
            /\ pc' = IF New(flags.source).err = "nil" THEN "load" ELSE "exit"
    /\ UNCHANGED <<heapVars, roots, calls, regVars, teVars, akVars>>

\* src.Load()
MainLoad ==
    /\ pc = "load"
    /\ \/ New(flags.source).kind = "TextExpander" /\ TELoad /\ UNCHANGED akVars
       \/ New(flags.source).kind = "AutoKey" /\ AKLoad /\ UNCHANGED teVars
    /\ pc' = IF ret' = "nil" THEN "merge" ELSE "exit"
    /\ UNCHANGED <<flags, regVars>>

\* dst, err := expander.New(*dstExp); root := &expander.Group{...}; the loop
\* over src.Groups(); root.MergeAll(src.Groups())
MainMerge ==
    /\ pc = "merge"
    /\ IF New(flags.dest).err # "nil"
       THEN /\ pc' = "exit"
            /\ ret' = New(flags.dest).err
            /\ UNCHANGED <<gheap, roots>>
       ELSE \E groups \in SourceGroups :
              LET root == Len(gheap) + 1
                  gh1 == Append(gheap, [Name |-> flags.importName, Snippets |-> <<>>,
                                        Groups |-> <<>>, Parent |-> Nil])
              IN  /\ gheap' = MergeAll(SetParents(gh1, groups, root), sheap, root, groups)
                  /\ roots' = <<root>>
                  /\ pc' = "set"
                  /\ ret' = "nil"
    /\ UNCHANGED <<sheap, calls, flags, regVars, teVars, akVars>>

\* dst.SetGroup(root)
MainSetGroup ==
    /\ pc = "set"
    /\ \/ New(flags.dest).kind = "AutoKey" /\ AKSetGroup(roots[1]) /\ UNCHANGED teVars
       \/ New(flags.dest).kind = "TextExpander" /\ TESetGroup(roots[1]) /\ UNCHANGED akVars
    /\ pc' = "write"
    /\ UNCHANGED <<flags, regVars>>

\* dst.Write()
MainWrite ==
    /\ pc = "write"
    /\ \/ New(flags.dest).kind = "AutoKey" /\ AKWrite /\ UNCHANGED teVars
       \/ New(flags.dest).kind = "TextExpander" /\ TEWrite /\ UNCHANGED akVars
    /\ pc' = IF ret' = "nil" THEN "done" ELSE "exit"
    /\ UNCHANGED <<flags, regVars>>

\* ------------------------------------------ specification of the registry

InitRegistry ==
    /\ registry = EmptyMap
    /\ mu = Nil
    /\ rpc = [p \in Registrants |-> "start"]
    /\ rarg \in [Registrants -> RegistryNames]
    /\ rret = [p \in Registrants |-> "running"]
    /\ gheap = <<>>
    /\ sheap = <<>>
    /\ roots = <<>>
    /\ calls = <<>>
    /\ ret = "nil"
    /\ TEUnused
    /\ AKUnused
    /\ MainUnused

NextRegistry ==
    \E p \in Registrants :
        \/ RegisterLock(p) /\ UNCHANGED <<heapVars, callVars, teVars, akVars, mainVars>>
        \/ RegisterCheck(p) /\ UNCHANGED <<heapVars, callVars, teVars, akVars, mainVars>>
        \/ RegisterStore(p) /\ UNCHANGED <<heapVars, callVars, teVars, akVars, mainVars>>

SpecRegistry == InitRegistry /\ [][NextRegistry]_vars

\* -------------------------------- specification of the TextExpander backend
\* One TextExpander over a settings file; the caller holds two groups of its
\* own, both named "a", and calls Load, SetGroup and Write in any order.

InitTE ==
    /\ teFile \in TEFiles
    /\ teData = EmptyRawData
    /\ teGroups = <<>>
    /\ LET leaf == [Name |-> <<"a">>, Snippets |-> <<>>, Groups |-> <<>>]
           a == AllocGroup(<<>>, <<>>, leaf, Nil)
           b == AllocGroup(a.gh, a.sh, leaf, Nil)
       IN  /\ gheap = b.gh
           /\ sheap = b.sh
           /\ roots = <<a.id, b.id>>
    /\ calls = <<>>
    /\ ret = "nil"
    /\ RegistryUnused
    /\ AKUnused
    /\ MainUnused

NextTE ==
    \/ Len(calls) < MaxCalls /\ TELoad /\ UNCHANGED <<regVars, akVars, mainVars>>
    \/ Len(calls) < MaxCalls /\ (\E g \in Range(roots) : TESetGroup(g))
          /\ UNCHANGED <<regVars, akVars, mainVars>>
    \/ Len(calls) < MaxCalls /\ TEWrite /\ UNCHANGED <<regVars, akVars, mainVars>>

SpecTE == InitTE /\ [][NextTE]_vars

\* ----------------------------------------------- specification of the merge
\* The caller holds a target tree and an incoming tree and calls
\* target.Merge(incoming) or target.MergeAll(incoming.Groups).

Target == roots[1]
Incoming == roots[2]

InitMerge ==
    \E n1 \in 1..(MaxNodes - 1) : \E n2 \in 1..(MaxNodes - n1) :
      \E t \in GroupTrees(n1, {<<"T">>}, MergeGroupNames, MergeSnippetNames) :
        \E u \in GroupTrees(n2, {<<"I">>}, MergeGroupNames, MergeSnippetNames) :
          LET a == AllocGroup(<<>>, <<>>, t, Nil)
              b == AllocGroup(a.gh, a.sh, u, Nil)
          IN  /\ gheap = b.gh
              /\ sheap = b.sh
              /\ roots = <<a.id, b.id>>
              /\ calls = <<>>
    /\ ret = "nil"
    /\ RegistryUnused
    /\ TEUnused
    /\ AKUnused
    /\ MainUnused

CallMerge ==
    /\ Len(calls) < MaxMerges
    /\ gheap' = Merge(gheap, sheap, Target, Incoming)
    /\ calls' = Append(calls, "Merge")
    /\ UNCHANGED <<sheap, roots, ret>>

CallMergeAll ==
    /\ Len(calls) < MaxMerges
    /\ gheap' = MergeAll(gheap, sheap, Target, gheap[Incoming].Groups)
    /\ calls' = Append(calls, "MergeAll")
    /\ UNCHANGED <<sheap, roots, ret>>

NextMerge ==
    \/ CallMerge /\ UNCHANGED <<regVars, teVars, akVars, mainVars>>
    \/ CallMergeAll /\ UNCHANGED <<regVars, teVars, akVars, mainVars>>

SpecMerge == InitMerge /\ [][NextMerge]_vars

\* ------------------------------------- specification of the AutoKey backend
\* One AutoKey over the data directory; the caller holds a group tree of
\* its own and calls Load, SetGroup (with its tree or with a group
\* that Groups returns) and Write in any order. The directory is missing, or
\* is what an earlier run left there.

AKGroupNames == {<<"a">>, <<"b">>}
AKChildNames == {<<"a">>}
AKSnippetNames == {<<"s">>, <<>>, <<Dot, "s">>}

\* The snippets of the trees: named "s" with and without an abbreviation,
\* and with an abbreviation under the empty name and under the name ".s".
AKSnippets ==
    {v \in SnippetValues(AKSnippetNames) : v.Name = <<"s">> \/ v.Abbr # <<>>}

RECURSIVE SnippetsOf(_)
SnippetsOf(t) ==
    Range(t.Snippets) \cup UNION {SnippetsOf(t.Groups[i]) : i \in 1..Len(t.Groups)}

AKTrees(n, rootnames) ==
    {t \in GroupTrees(n, rootnames, AKChildNames, AKSnippetNames) :
       SnippetsOf(t) \subseteq AKSnippets}

\* What a run that wrote the one tree t into an empty file system left.
DiskAfterWriting(t) ==
    LET a == AllocGroup(<<>>, <<>>, t, Nil)
    IN  WriteAll(EmptyFS, a.gh, a.sh,
                 MapPut(EmptyMap, t.Name, [group |-> a.id, managed |-> TRUE]),
                 <<t.Name>>, 0).fs

\* Nothing, or what an earlier run left that wrote a group "a" holding one
\* snippet named "s" or one child group.
InitialDisks ==
    {EmptyFS} \cup {DiskAfterWriting(t) :
                      t \in {u \in AKTrees(2, {<<"a">>}) : NamesOf(u.Snippets) \subseteq {<<"s">>}}}

InitAK ==
    /\ \E n \in 1..MaxAKNodes :
         \E t \in AKTrees(n, AKGroupNames) :
           LET a == AllocGroup(<<>>, <<>>, t, Nil)
           IN  /\ gheap = a.gh
               /\ sheap = a.sh
               /\ roots = <<a.id>>
    /\ fs \in InitialDisks
    /\ akGroups = EmptyMap
    /\ wrote = <<>>
    /\ calls = <<>>
    /\ ret = "nil"
    /\ RegistryUnused
    /\ TEUnused
    /\ MainUnused

NextAK ==
    \/ Len(calls) < MaxCalls /\ AKLoad /\ UNCHANGED <<regVars, teVars, mainVars>>
    \/ Len(calls) < MaxCalls /\ (\E g \in Range(roots) \cup AKGroups : AKSetGroup(g))
          /\ UNCHANGED <<regVars, teVars, mainVars>>
    \/ Len(calls) < MaxCalls /\ AKWrite /\ UNCHANGED <<regVars, teVars, mainVars>>

SpecAK == InitAK /\ [][NextAK]_vars

\* ----------------------- specification of the AutoKey backend, empty disk
\* The AutoKey backend with an empty data directory and a caller that holds
\* one tree "a" of up to MaxFreshNodes objects whose snippets are named "s"
\* and "t".

FreshSnippetNames == {<<"s">>, <<"t">>}

InitAKFresh ==
    /\ \E n \in 1..MaxFreshNodes :
         \E t \in GroupTrees(n, {<<"a">>}, AKChildNames, FreshSnippetNames) :
           \E a \in {AllocGroup(<<>>, <<>>, t, Nil)} :
             /\ gheap = a.gh
             /\ sheap = a.sh
             /\ roots = <<a.id>>
    /\ fs = EmptyFS
    /\ akGroups = EmptyMap
    /\ wrote = <<>>
    /\ calls = <<>>
    /\ ret = "nil"
    /\ RegistryUnused
    /\ TEUnused
    /\ MainUnused

SpecAKFresh == InitAKFresh /\ [][NextAK]_vars


\* --------------------------------------------- specification of the command
\* One run of the command. Both backends are registered; -source and -dest
\* are unset, a registered name or another name, and name different backends
\* when both are registered names.

ExpanderFlags == {"", "TextExpander", "AutoKey", "Espanso"}
ImportNames == {<<>>, <<"I">>}

FlagSets ==
    {f \in [source : ExpanderFlags, dest : ExpanderFlags, importName : ImportNames] :
       ~(f.source = f.dest /\ f.source \in RegistryNames)}

InitMain ==
    /\ flags \in FlagSets
    /\ pc = "start"
    /\ registry = [n \in RegistryNames |-> n]
    /\ mu = Nil
    /\ rpc = <<>>
    /\ rarg = <<>>
    /\ rret = <<>>
    /\ teFile \in TEFiles
    /\ teData = EmptyRawData
    /\ teGroups = <<>>
    /\ fs \in InitialDisks
    /\ akGroups = EmptyMap
    /\ wrote = <<>>
    /\ gheap = <<>>
    /\ sheap = <<>>
    /\ roots = <<>>
    /\ calls = <<>>
    /\ ret = "nil"

NextMain ==
    \/ MainStart
    \/ MainLoad
    \/ MainMerge
    \/ MainSetGroup
    \/ MainWrite

SpecMain == InitMain /\ [][NextMain]_vars

\* ------------------------------- specification of a caller of both backends
\* A caller that holds one TextExpander and one AutoKey, loads them and sets
\* groups on them: three groups of its own (two of them with the same name),
\* and the groups either backend has loaded. The settings file lists groups
\* without snippets.

SetGroupFiles ==
    {f \in TEFiles : \A i \in 1..Len(f.data.Groups) : f.data.Groups[i].UUIDs = <<>>}

InitBackends ==
    /\ teFile \in SetGroupFiles
    /\ teData = EmptyRawData
    /\ teGroups = <<>>
    /\ fs \in InitialDisks
    /\ akGroups = EmptyMap
    /\ wrote = <<>>
    /\ \E a1 \in {AllocGroup(<<>>, <<>>, [Name |-> <<"a">>, Snippets |-> <<>>, Groups |-> <<>>], Nil)} :
         \E a2 \in {AllocGroup(a1.gh, a1.sh, [Name |-> <<"a">>, Snippets |-> <<>>, Groups |-> <<>>], Nil)} :
           \E b \in {AllocGroup(a2.gh, a2.sh, [Name |-> <<"b">>, Snippets |-> <<>>, Groups |-> <<>>], Nil)} :
             /\ gheap = b.gh
             /\ sheap = b.sh
             /\ roots = <<a1.id, a2.id, b.id>>
    /\ calls = <<>>
    /\ ret = "nil"
    /\ RegistryUnused
    /\ MainUnused

\* The groups the caller can pass to SetGroup.
KnownGroups == Range(roots) \cup Range(teGroups) \cup AKGroups

NextBackends ==
    \/ Len(calls) < MaxCalls /\ TELoad /\ UNCHANGED <<regVars, akVars, mainVars>>
    \/ Len(calls) < MaxCalls /\ AKLoad /\ UNCHANGED <<regVars, teVars, mainVars>>
    \/ Len(calls) < MaxCalls /\ (\E g \in KnownGroups : TESetGroup(g))
          /\ UNCHANGED <<regVars, akVars, mainVars>>
    \/ Len(calls) < MaxCalls /\ (\E g \in KnownGroups : AKSetGroup(g))
          /\ UNCHANGED <<regVars, teVars, mainVars>>

SpecBackends == InitBackends /\ [][NextBackends]_vars


\* ------------------------------------------------------- claims on the merge

\* C1: Merge is idempotent. Once target.Merge(incoming) has been called, a
\* further target.Merge(incoming) leaves the target tree with the same group
\* names, snippet names, snippet fields and list lengths at every level.
C1_MergeIdempotent ==
    [][ ("Merge" \in Range(calls) /\ calls' = Append(calls, "Merge"))
        => TreeView(gheap', sheap', Target) = TreeView(gheap, sheap, Target) ]_vars

\* Two merges were made, and the merge recursed into an existing child group
\* of the same name and gave it the incoming group's snippets.
C1_Witness ==
    /\ calls = <<"Merge", "Merge">>
    /\ gheap[Incoming].Snippets # <<>>
    /\ \E c \in Range(gheap[Target].Groups) : \E o \in Range(gheap[Incoming].Groups) :
         /\ c # o
         /\ gheap[c].Name = gheap[o].Name
         /\ gheap[o].Snippets # <<>>
         /\ Range(gheap[o].Snippets) \subseteq Range(gheap[c].Snippets)

\* What a merge of other into g must keep, comparing the heap before (gh)
\* and after (gh2): a snippet of g whose name is not among other's snippets
\* stays in g's list; a child group of g whose name is not among other's
\* child groups stays with its whole subtree as it was; a child group that
\* is matched stays a child, and the same holds between it and its match.
RECURSIVE KeptByMerge(_, _, _, _, _, _)
KeptByMerge(gh, sh, gh2, sh2, g, other) ==
    /\ \A s \in Range(gh[g].Snippets) :
         (\A o \in Range(gh[other].Snippets) : sh[o].Name # sh[s].Name)
           => s \in Range(gh2[g].Snippets) /\ sh2[s] = sh[s]
    /\ \A c \in Range(gh[g].Groups) :
         /\ c \in Range(gh2[g].Groups)
         /\ gh2[c].Name = gh[c].Name
         /\ LET o == FindGroup(gh, other, gh[c].Name)
            IN  IF o = Nil
                THEN TreeView(gh2, sh2, c) = TreeView(gh, sh, c)
                ELSE KeptByMerge(gh, sh, gh2, sh2, c, o)

\* C2: Merge never removes target content. Every group and snippet of the
\* target whose name does not occur at the corresponding place of the incoming
\* tree is still there after target.Merge(incoming), fields and children
\* unchanged, at every level.
C2_MergeKeepsTarget ==
    [][ calls' = Append(calls, "Merge")
        => KeptByMerge(gheap, sheap, gheap', sheap', Target, Incoming) ]_vars

\* A merge was made into a target that had a child group and a snippet of its
\* own, neither named in the incoming tree, while the incoming tree brought a
\* group and a snippet.
C2_Witness ==
    /\ calls = <<"Merge">>
    /\ gheap[Incoming].Snippets # <<>>
    /\ gheap[Incoming].Groups # <<>>
    /\ \E c \in Range(gheap[Target].Groups) :
         /\ gheap[c].Parent = Target
         /\ FindGroup(gheap, Incoming, gheap[c].Name) = Nil
    /\ \E s \in Range(gheap[Target].Snippets) :
         /\ sheap[s].Parent = Target
         /\ \A o \in Range(gheap[Incoming].Snippets) : sheap[o].Name # sheap[s].Name

\* Every child group and snippet below g has Parent equal to the group that
\* lists it.
RECURSIVE ParentConsistent(_, _, _)
ParentConsistent(gh, sh, g) ==
    /\ \A s \in Range(gh[g].Snippets) : sh[s].Parent = g
    /\ \A c \in Range(gh[g].Groups) : gh[c].Parent = g /\ ParentConsistent(gh, sh, c)

\* C12: Merge preserves Parent consistency. When every child group and
\* snippet below target and below incoming has Parent equal to the group that
\* lists it, then after target.Merge(incoming) every group and snippet
\* reachable from target has Parent equal to the group that lists it.
C12_MergeKeepsParents ==
    [][ ( /\ calls' = Append(calls, "Merge")
          /\ ParentConsistent(gheap, sheap, Target)
          /\ ParentConsistent(gheap, sheap, Incoming) )
        => ParentConsistent(gheap', sheap', Target) ]_vars


\* No two sibling groups and no two sibling snippets below g share a name.
RECURSIVE SiblingNamesUnique(_, _, _)
SiblingNamesUnique(gh, sh, g) ==
    /\ \A i, j \in 1..Len(gh[g].Snippets) :
         sh[gh[g].Snippets[i]].Name = sh[gh[g].Snippets[j]].Name => i = j
    /\ \A i, j \in 1..Len(gh[g].Groups) :
         gh[gh[g].Groups[i]].Name = gh[gh[g].Groups[j]].Name => i = j
    /\ \A c \in Range(gh[g].Groups) : SiblingNamesUnique(gh, sh, c)

\* C13: Merge preserves sibling-name uniqueness. The target and the incoming
\* tree start with unique sibling names, and after any sequence of Merge and
\* MergeAll calls into the target no two sibling groups and no two sibling
\* snippets of any group reachable from the target share a name.
C13_MergeKeepsNamesUnique ==
    SiblingNamesUnique(gheap, sheap, Target)

\* Two calls were made into the target; the target now has two child groups,
\* a child group of the incoming tree met a child group of the same name in
\* the target, and a snippet of the incoming tree is in the target's list.
C13_Witness ==
    /\ Len(calls) = 2
    /\ Len(gheap[Target].Groups) = 2
    /\ \E c \in Range(gheap[Target].Groups) : \E o \in Range(gheap[Incoming].Groups) :
         c # o /\ gheap[c].Name = gheap[o].Name
    /\ \E s \in Range(gheap[Incoming].Snippets) : s \in Range(gheap[Target].Snippets)


\* The child groups of other that MergeAll appends to g: those whose name g
\* has no child group of, in other's order.
AppendedGroups(gh, g, other) ==
    SelectSeq(gh[other].Groups, LAMBDA o : FindGroup(gh, g, gh[o].Name) = Nil)

\* The snippets of other that mergeSnippets appends to g: those whose name g
\* has no snippet of, in other's order.
AppendedSnippets(gh, sh, g, other) ==
    SelectSeq(gh[other].Snippets, LAMBDA o : FindSnippet(gh, sh, g, sh[o].Name) = 0)

\* The snippet list of g after mergeSnippets, as far as it was there before:
\* each place holds the snippet it held, or the snippet of other of that name.
KeptSnippets(gh, sh, g, other) ==
    [i \in 1..Len(gh[g].Snippets) |->
       IF FindSnippet(gh, sh, other, sh[gh[g].Snippets[i]].Name) = 0
       THEN gh[g].Snippets[i]
       ELSE gh[other].Snippets[FindSnippet(gh, sh, other, sh[gh[g].Snippets[i]].Name)]]

\* C15: Merge ordering. After target.Merge(incoming) the child-group list of
\* the target is its list from before followed by the incoming groups of new
\* names in incoming's order, and its snippet list is its list from before,
\* each overwritten snippet at the index of the snippet it replaced, followed
\* by the incoming snippets of new names in incoming's order.
C15_MergeOrdering ==
    [][ calls' = Append(calls, "Merge")
        => /\ gheap'[Target].Groups
                = gheap[Target].Groups \o AppendedGroups(gheap, Target, Incoming)
           /\ gheap'[Target].Snippets
                = KeptSnippets(gheap, sheap, Target, Incoming)
                    \o AppendedSnippets(gheap, sheap, Target, Incoming) ]_vars

\* A merge has overwritten the first of the target's two snippets, has kept
\* the second, and has appended a group of the incoming tree.
C15_Witness ==
    /\ calls = <<"Merge">>
    /\ Len(gheap[Target].Snippets) >= 2
    /\ gheap[Target].Snippets[1] \in Range(gheap[Incoming].Snippets)
    /\ sheap[gheap[Target].Snippets[2]].Parent = Target
    /\ Range(gheap[Target].Groups) \cap Range(gheap[Incoming].Groups) # {}


\* ---------------------------------------------------- claims on the registry

\* C8: registration is exclusive. Over every interleaving of concurrent
\* Register calls at most one call per name has returned nil, the registry maps
\* a name to the constructor of the call that returned nil for it, once every
\* call has returned each name has exactly one successful call and every other
\* call for it returned "already registered", and a call that returns the
\* error leaves the registry as it was.
C8_RegistrationExclusive ==
    /\ [](/\ \A p, q \in Registrants :
               (rret[p] = "nil" /\ rret[q] = "nil" /\ rarg[p] = rarg[q]) => p = q
          /\ \A p \in Registrants :
               rret[p] = "nil" => (rarg[p] \in DOMAIN registry /\ registry[rarg[p]] = p)
          /\ \A n \in DOMAIN registry :
               \E p \in Registrants : rarg[p] = n /\ registry[n] = p
          /\ (\A p \in Registrants : rpc[p] = "done")
               => \A p \in Registrants :
                    /\ rret[p] \in {"nil", "already registered"}
                    /\ \E q \in Registrants : rarg[q] = rarg[p] /\ rret[q] = "nil")
    /\ [][ \A p \in Registrants :
             (rret[p] # "already registered" /\ rret'[p] = "already registered")
               => registry' = registry ]_vars

\* Every call has returned; two goroutines registered the same name and one
\* of them got the error.
C8_Witness ==
    /\ \A p \in Registrants : rpc[p] = "done"
    /\ \E p, q \in Registrants :
         /\ p # q
         /\ rarg[p] = rarg[q]
         /\ rret[p] = "nil"
         /\ rret[q] = "already registered"

\* ---------------------------------- claims on the TextExpander backend

\* The index of the first group record of the document that lists an
\* identifier no snippet record has, 0 if every reference resolves.
FirstUnresolved(data) ==
    LET known == {data.Snippets[i].UUID : i \in 1..Len(data.Snippets)}
        bad == {i \in 1..Len(data.Groups) :
                  \E j \in 1..Len(data.Groups[i].UUIDs) : data.Groups[i].UUIDs[j] \notin known}
    IN  IF bad = {} THEN 0 ELSE CHOOSE i \in bad : \A k \in bad : i <= k

\* C5: Load on a document in which a group record lists an identifier that
\* no snippet record has returns the unresolved-reference error, and the
\* partially built group is not returned: the Group object built for that
\* record is not in te.groups, and every group the call did add holds all the
\* snippets its record lists.
C5_UnresolvedReferenceFails ==
    [][ (calls' = Append(calls, "Load") /\ teFile.state = "ok"
          /\ FirstUnresolved(teFile.data) # 0)
        => LET k == FirstUnresolved(teFile.data)
               partial == Len(gheap')
           IN  /\ ret' = "invalid snippet UUID"
               /\ gheap'[partial].Name = teFile.data.Groups[k].Name
               /\ partial \notin Range(teGroups')
               /\ Len(teGroups') = Len(teGroups) + k - 1
               /\ \A i \in 1..(k - 1) :
                    LET g == teGroups'[Len(teGroups) + i]
                    IN  /\ g \notin Range(teGroups)
                        /\ gheap'[g].Name = teFile.data.Groups[i].Name
                        /\ Len(gheap'[g].Snippets) = Len(teFile.data.Groups[i].UUIDs) ]_vars

\* Load has failed on a group record whose first reference resolved and whose
\* second did not: the partially built group holds one snippet.
C5_Witness ==
    /\ calls = <<"Load">>
    /\ ret = "invalid snippet UUID"
    /\ Len(gheap[Len(gheap)].Snippets) = 1
    /\ Len(gheap) \notin Range(teGroups)

\* C9, as claimed: after a successful Load the backend's top-level groups are
\* exactly the groups of the document, each once, with nothing kept from
\* earlier Load or SetGroup calls.
C9_LoadReplacesGroups ==
    (calls # <<>> /\ calls[Len(calls)] = "Load" /\ ret = "nil")
      => /\ Len(teGroups) = Len(teFile.data.Groups)
         /\ \A i \in 1..Len(teGroups) :
              gheap[teGroups[i]].Name = teFile.data.Groups[i].Name

\* C10: the TextExpander backend is read-only. Write returns an error in
\* every state, and no call changes the settings file; Write leaves te.groups
\* and the heap as they were.
C10_WriteAlwaysFails ==
    /\ []((calls # <<>> /\ calls[Len(calls)] = "Write") => ret # "nil")
    /\ [][teFile' = teFile]_vars
    /\ [][ calls' = Append(calls, "Write")
           => (teGroups' = teGroups /\ gheap' = gheap /\ sheap' = sheap) ]_vars

\* Write was called on a backend that was loaded and then given a group with
\* SetGroup.
C10_Witness ==
    /\ calls = <<"Load", "SetGroup", "Write">>
    /\ Len(teGroups) >= 2


\* C20: a Load that fails with the unresolved-reference error leaves Groups()
\* as it was: no group of the failing document has been added, the complete
\* groups that precede the failing one included.
C20_FailedLoadAddsNothing ==
    [][ (calls' = Append(calls, "Load") /\ ret' = "invalid snippet UUID")
        => teGroups' = teGroups ]_vars


\* ---------------------------------------- claims on the AutoKey backend

LastCall == IF calls = <<>> THEN "" ELSE calls[Len(calls)]

ManagedGroups == {akGroups[n].group : n \in {m \in DOMAIN akGroups : akGroups[m].managed}}

\* The body file and the metadata file of snippet s are on the disk.
Persisted(s) ==
    LET sPath == Join(Dir, SnippetPath(gheap, sheap, s) \o <<Dot>> \o snippetExt)
        mdPath == metadataPath(sPath)
    IN  /\ mdPath.err = "nil"
        /\ IsFile(fs, FsKey(sPath))
        /\ IsFile(fs, FsKey(mdPath.path))

\* C3: when Write has succeeded and is called again with nothing done in
\* between (the in-memory tree and its modification times are the same), the
\* second Write writes no metadata file and no body file, and leaves every
\* file on the disk with the modification time and the contents it had.
C3_SecondWriteWritesNothing ==
    [][ (LastCall = "Write" /\ ret = "nil" /\ calls' = Append(calls, "Write"))
        => (wrote' = <<>> /\ fs' = fs) ]_vars

\* Two Writes in a row of a managed group "b", which no earlier run wrote,
\* with a snippet that the first Write persisted and the second left alone.
C3_Witness ==
    /\ Len(calls) >= 3
    /\ calls[Len(calls) - 1] = "Write"
    /\ LastCall = "Write"
    /\ ret = "nil"
    /\ wrote = <<>>
    /\ \E g \in ManagedGroups :
         /\ gheap[g].Name = <<"b">>
         /\ gheap[g].Snippets # <<>>
         /\ \A i \in 1..Len(gheap[g].Snippets) : Persisted(gheap[g].Snippets[i])

\* The disk holds what a Write of the present groups into an empty file
\* system leaves, and nothing else.
WrittenIntoEmptyDirectory ==
    \E order \in Orders(DOMAIN akGroups) :
      LET w == WriteAll(EmptyFS, gheap, sheap, akGroups, order, 0)
      IN  w.err = "nil" /\ w.fs = fs

\* C4: a group is passed to SetGroup and written by a successful Write into
\* an empty directory; then Load succeeds and yields a group of the same name
\* that has, for every snippet of the group with abbreviation a and text t, a
\* snippet with abbreviation a and text t.
C4_FileTreeRoundTrip ==
    [][ ( /\ calls = <<"SetGroup", "Write">>
          /\ ret = "nil"
          /\ WrittenIntoEmptyDirectory
          /\ calls' = Append(calls, "Load") )
        => /\ ret' = "nil"
           /\ \A g \in ManagedGroups :
                /\ gheap[g].Name \in DOMAIN akGroups'
                /\ LET l == akGroups'[gheap[g].Name].group
                   IN  /\ gheap'[l].Name = gheap[g].Name
                       /\ \A i \in 1..Len(gheap[g].Snippets) :
                            \E j \in 1..Len(gheap'[l].Snippets) :
                              /\ sheap'[gheap'[l].Snippets[j]].Abbr
                                   = sheap[gheap[g].Snippets[i]].Abbr
                              /\ sheap'[gheap'[l].Snippets[j]].Text
                                   = sheap[gheap[g].Snippets[i]].Text ]_vars

\* The groups of the tree below g, g included.
RECURSIVE TreeGroups(_, _)
TreeGroups(gh, g) ==
    {g} \cup UNION {TreeGroups(gh, gh[g].Groups[i]) : i \in 1..Len(gh[g].Groups)}

\* The places that belong to the top-level group g: the directories of its
\* groups with the directories that lead to them, and the body and metadata
\* files of their snippets.
PlacesOf(g) ==
    UNION { Prefixes(FsKey(Join(Dir, GroupPath(gheap, t))))
              \cup UNION { LET sPath == Join(Dir, SnippetPath(gheap, sheap, gheap[t].Snippets[i])
                                                \o <<Dot>> \o snippetExt)
                           IN  {FsKey(sPath), FsKey(metadataPath(sPath).path)} :
                           i \in 1..Len(gheap[t].Snippets) } :
            t \in TreeGroups(gheap, g) }

\* ak.groups without the groups that Load attached last.
ManagedOnly ==
    [n \in {m \in DOMAIN akGroups : akGroups[m].managed} |-> akGroups[n]]

ManagedSnippets ==
    UNION { Range(gheap[t].Snippets) :
            t \in UNION {TreeGroups(gheap, g) : g \in ManagedGroups} }

\* C16: the freshness rule of writeSnippet. In a Write that succeeds, a
\* snippet whose metadata file exists with a modification time not older
\* than the snippet's ModTime is skipped, its metadata file and its body file
\* left as they were (present or absent); every other snippet is written, and
\* afterwards its metadata file and its body file are both present, the body
\* file holds the snippet's text, and both have modification time ModTime.
C16_FreshnessRule ==
    [][ (calls' = Append(calls, "Write") /\ ret' = "nil")
        => \A s \in ManagedSnippets : \A p \in {snippetFiles(gheap, sheap, s)} :
             /\ p.err = "nil"
             /\ IF UpToDate(fs, p.md, sheap[s].ModTime)
                THEN /\ fs'[p.md] = fs[p.md]
                     /\ p.body \in DOMAIN fs' <=> p.body \in DOMAIN fs
                     /\ p.body \in DOMAIN fs => fs'[p.body] = fs[p.body]
                     /\ p.md \notin Range(wrote') /\ p.body \notin Range(wrote')
                ELSE /\ p.md \in Range(wrote') /\ p.body \in Range(wrote')
                     /\ IsFile(fs', p.md) /\ IsFile(fs', p.body)
                     /\ fs'[p.body].text = sheap[s].Text
                     /\ fs'[p.md].mtime = sheap[s].ModTime
                     /\ fs'[p.body].mtime = sheap[s].ModTime ]_vars

\* A successful Write has skipped a snippet whose metadata file, left by an
\* earlier run, is newer than the snippet: nothing was written and the body
\* file still holds the other text.
C16_Witness ==
    /\ LastCall = "Write"
    /\ ret = "nil"
    /\ wrote = <<>>
    /\ \E s \in ManagedSnippets : \E p \in {snippetFiles(gheap, sheap, s)} :
         /\ IsFile(fs, p.md) /\ IsFile(fs, p.body)
         /\ fs[p.md].mtime > sheap[s].ModTime
         /\ fs[p.body].text # sheap[s].Text


\* The state on the disk f is valid for the managed trees: every snippet
\* whose metadata file is there with a modification time not older than the
\* snippet's ModTime has its body file there with the snippet's text.
OnDiskValid(f) ==
    \A s \in ManagedSnippets : \A p \in {snippetFiles(gheap, sheap, s)} :
      (p.err = "nil" /\ UpToDate(f, p.md, sheap[s].ModTime))
        => (IsFile(f, p.body) /\ f[p.body].text = sheap[s].Text)

\* C17: partial failure of Write. When an I/O step fails while Write walks a
\* managed tree, Write returns the error, nothing that was on the disk is
\* taken back, and the state on the disk, valid before, is valid afterwards:
\* every snippet whose metadata file is on the disk with a modification time
\* not older than its ModTime has its body file with its text.
C17_PartialWriteLeavesValidState ==
    [][ (calls' = Append(calls, "Write") /\ ret' # "nil" /\ OnDiskValid(fs))
        => (DOMAIN fs \subseteq DOMAIN fs' /\ OnDiskValid(fs')) ]_vars


\* The disk holds what a Write of the present groups that failed at an I/O
\* step left in an empty file system.
LeftByFailedWrite ==
    \E order \in Orders(DOMAIN akGroups) :
      \E fault \in 1..WriteAll(EmptyFS, gheap, sheap, akGroups, order, 0).step :
        \E w \in {WriteAll(EmptyFS, gheap, sheap, akGroups, order, fault)} :
          w.err # "nil" /\ w.fs = fs

\* C19: repeated runs converge after a failure. The destination was empty,
\* a Write of the managed tree has failed at an I/O step, and the tree is
\* unchanged; when the next Write returns success, every snippet of every
\* managed group has its metadata file and its body file on the disk, and
\* the body file holds the snippet's text.
C19_WriteAfterFailureCompletes ==
    [][ ( /\ LastCall = "Write"
          /\ ret # "nil"
          /\ LeftByFailedWrite
          /\ calls' = Append(calls, "Write")
          /\ ret' = "nil" )
        => \A s \in ManagedSnippets : \A p \in {snippetFiles(gheap, sheap, s)} :
             /\ p.err = "nil"
             /\ IsFile(fs', p.md)
             /\ IsFile(fs', p.body)
             /\ fs'[p.body].text = sheap[s].Text ]_vars


\* The groups that Load attached last.
LoadedGroups == {akGroups[n].group : n \in {m \in DOMAIN akGroups : ~akGroups[m].managed}}

\* C18: timestamp round trip. A snippet with ModTime m is written by a
\* successful Write into an empty directory; a following Load succeeds and
\* gives every snippet it builds for the group the ModTime m of the snippet
\* written with that text. And when a directory written in this way is
\* loaded and the loaded group is passed to SetGroup, the next Write writes
\* no file.
C18_TimestampRoundTrip ==
    /\ [][ ( /\ calls = <<"SetGroup", "Write">>
             /\ ret = "nil"
             /\ WrittenIntoEmptyDirectory
             /\ calls' = Append(calls, "Load") )
           => /\ ret' = "nil"
              /\ \A g \in ManagedGroups :
                   \A l \in Range(gheap'[akGroups'[gheap[g].Name].group].Snippets) :
                     \E o \in Range(gheap[g].Snippets) :
                       /\ sheap'[l].Text = sheap[o].Text
                       /\ sheap'[l].ModTime = sheap[o].ModTime ]_vars
    /\ [][ ( /\ calls = <<"Load", "SetGroup">>
             /\ fs \in InitialDisks \ {EmptyFS}
             /\ ManagedGroups # {}
             /\ ManagedGroups \cap Range(roots) = {}
             /\ calls' = Append(calls, "Write") )
           => wrote' = <<>> ]_vars


\* The body files of the directory of group g on the disk f: its regular
\* files whose name does not start with a dot.
BodyFiles(f, g) ==
    { Append(FsKey(Join(Dir, GroupPath(gheap, g))), n) :
      n \in { m \in DirEntries(f, FsKey(Join(Dir, GroupPath(gheap, g)))) :
              m[1] # Dot /\ IsFile(f, Append(FsKey(Join(Dir, GroupPath(gheap, g))), m)) } }

\* C14: Load yields one snippet per body file. A group whose sibling names
\* are unique is written by a successful Write into an empty directory; then
\* Load succeeds and builds, for the group's directory, as many snippets as
\* the directory has body files and as the group has snippets, each with the
\* contents of a body file as text, none for a metadata file, and no two of
\* the loaded group's sibling snippets or sibling groups share a name.
C14_LoadOneSnippetPerBodyFile ==
    [][ ( /\ calls = <<"SetGroup", "Write">>
          /\ ret = "nil"
          /\ \A g \in ManagedGroups : SiblingNamesUnique(gheap, sheap, g)
          /\ calls' = Append(calls, "Load") )
        => /\ ret' = "nil"
           /\ \A g \in ManagedGroups : \A l \in {akGroups'[gheap[g].Name].group} :
                /\ Len(gheap'[l].Snippets) = Cardinality(BodyFiles(fs, g))
                /\ Len(gheap'[l].Snippets) = Len(gheap[g].Snippets)
                /\ \A i \in 1..Len(gheap'[l].Snippets) :
                     \E k \in BodyFiles(fs, g) :
                       sheap'[gheap'[l].Snippets[i]].Text = fs[k].text
                /\ SiblingNamesUnique(gheap', sheap', l) ]_vars


\* ------------------------------------------------- claims on the command

\* Nothing is in the data directory of the destination.
DestinationEmpty ==
    FsKey(Dir) \notin DOMAIN fs \/ DirEntries(fs, FsKey(Dir)) = {}

\* The body file and the metadata file of a snippet named name, with
\* abbreviation abbr and the given text, are in the directory dir of disk.
PersistedUnder(disk, dir, name, abbr, text) ==
    \E body \in {FsKey(Join(dir, name \o <<Dot>> \o snippetExt))} :
      \E md \in {FsKey(Join(dir, <<Dot>> \o name \o <<Dot>> \o metadataExt))} :
        /\ IsFile(disk, body)
        /\ disk[body].text = text
        /\ IsFile(disk, md)
        /\ disk[md].md.valid
        /\ disk[md].md.Abbreviations = (IF abbr = <<>> THEN <<>> ELSE <<abbr>>)

\* Every source group holds snippets of its own: the Parent of a snippet in
\* the list of a group is that group.
SourceGroupsHoldTheirSnippets ==
    \A g \in Range(TEGroups) :
      \A s \in Range(gheap[g].Snippets) : sheap[s].Parent = g

TENamesUnique ==
    \A i, j \in 1..Len(teGroups) :
      gheap[teGroups[i]].Name = gheap[teGroups[j]].Name => i = j

\* Every entry of the AutoKey's map is stored under its group's name.
AKNamesUnique ==
    \A n \in DOMAIN akGroups : gheap[akGroups[n].group].Name = n

\* C11: SetGroup is an upsert by name on both backends. When the backend's
\* top-level group names are unique (an empty backend, one loaded from
\* storage with unique names, or one reached from these by SetGroup calls),
\* then after SetGroup(g) the names are still unique, Group(g.Name) returns
\* g, Group(n) of every other name n returns what it returned before, and on
\* the AutoKey the entry of g is marked managed while every other entry is
\* unchanged.
C11_SetGroupUpserts ==
    [][ \A g \in KnownGroups :
          /\ (TENamesUnique /\ TESetGroup(g))
               => /\ TENamesUnique'
                  /\ TEGroup(gheap[g].Name)' = g
                  /\ \A n \in TEGroupNames \ {gheap[g].Name} : TEGroup(n)' = TEGroup(n)
                  /\ Len(teGroups') = Len(teGroups) + (IF TEGroup(gheap[g].Name) = Nil THEN 1 ELSE 0)
          /\ (AKNamesUnique /\ AKSetGroup(g))
               => /\ AKNamesUnique'
                  /\ AKGroup(gheap[g].Name)' = g
                  /\ akGroups'[gheap[g].Name].managed
                  /\ \A n \in DOMAIN akGroups \ {gheap[g].Name} :
                       n \in DOMAIN akGroups' /\ akGroups'[n] = akGroups[n]
                  /\ DOMAIN akGroups' = DOMAIN akGroups \cup {gheap[g].Name} ]_vars

\* The TextExpander has loaded groups "a" and "b" and SetGroup has put the
\* caller's group in the place of the loaded "a"; the AutoKey was empty and
\* SetGroup has added a group to it.
C11_Witness ==
    /\ calls = <<"Load", "SetGroup", "SetGroup">>
    /\ TENamesUnique
    /\ Len(teGroups) = 2
    /\ teGroups[1] \in Range(roots)
    /\ teGroups[2] \notin Range(roots)
    /\ AKNamesUnique
    /\ Cardinality(DOMAIN akGroups) = 1
    /\ \A n \in DOMAIN akGroups : akGroups[n].managed


====
